---- MODULE Spec2Model ----
(***************************************************************************)
(* A model of the App component of the AI Bulk Image Renamer (src/App.tsx): *)
(* the React state (images, itemCodes, error, isProcessing), the event      *)
(* handlers, the matching gate of handleProcessImages and the promises it   *)
(* launches.  Strings whose characters matter (file names, code text,       *)
(* returned names) are sequences of one-character strings.                  *)
(***************************************************************************)
EXTENDS Integers, Sequences, FiniteSets, TLC

\* Bounds of the model.
MaxFiles == 2       \* files selected over one behaviour of Spec (ids 1..MaxFiles)
MaxGateImages == 4  \* items in the collection of an initial state of SpecGate

(***************************************************************************)
(* Strings                                                                 *)
(***************************************************************************)
NL == "\n"
SP == " "

\* String.prototype.trim strips leading and trailing white space.
IsWhiteSpace(ch) == ch \in {SP, NL}

RECURSIVE TrimStart(_)
TrimStart(s) ==
  IF s = <<>> THEN <<>>
  ELSE IF IsWhiteSpace(Head(s)) THEN TrimStart(Tail(s)) ELSE s

RECURSIVE TrimEnd(_)
TrimEnd(s) ==
  IF s = <<>> THEN <<>>
  ELSE IF IsWhiteSpace(s[Len(s)]) THEN TrimEnd(SubSeq(s, 1, Len(s) - 1)) ELSE s

Trim(s) == TrimEnd(TrimStart(s))

\* String.prototype.startsWith
StartsWith(s, p) == Len(p) <= Len(s) /\ SubSeq(s, 1, Len(p)) = p

\* String.prototype.split on a one-character separator: "" splits into [""].
RECURSIVE SplitFrom(_, _, _)
SplitFrom(s, sep, cur) ==
  IF s = <<>> THEN <<cur>>
  ELSE IF Head(s) = sep THEN <<cur>> \o SplitFrom(Tail(s), sep, <<>>)
  ELSE SplitFrom(Tail(s), sep, Append(cur, Head(s)))

Split(s, sep) == SplitFrom(s, sep, <<>>)

\* Array.prototype.slice(0, n)
Slice(q, n) == SubSeq(q, 1, IF Len(q) < n THEN Len(q) ELSE n)

(***************************************************************************)
(* Inputs                                                                  *)
(***************************************************************************)
\* Names of the files the user selects.
FileNames == { <<"A">>, <<"A", "B">>, <<"B">> }

\* Contents the user gives the item-code textarea.
CodeTexts ==
  { <<>>,                                  \* nothing typed
    <<SP, NL, NL>>,                        \* blank lines only
    <<SP, "A", SP>>,                       \* one code, padded
    <<"B", NL>>,                           \* one code and a blank line
    <<"A", NL, "A", "B">>,                 \* a code and a longer one after it
    <<"A", "B", NL, SP, "A">>,             \* the longer one first
    <<"A", "B", NL, "A", "B">> }           \* the same code twice

\* What renameImage resolves with (a suggested file name).
RenameResults == { <<"N", SP>>, <<SP>> }

\* What renameImage rejects with: an Error (isError) or some other thrown value,
\* with the message it carries.  A message is a sequence of pieces of text; the
\* empty message is <<>>.
Failures ==
  { [isError |-> TRUE,  message |-> <<"quota exceeded">>],
    [isError |-> TRUE,  message |-> <<>>],
    [isError |-> FALSE, message |-> <<"quota exceeded">>] }

UnknownErrorMessage == <<"An unknown error occurred during processing.">>

\* `Internal Error: Could not find item code for ${image.originalName}.`
InternalErrorMessage(name) ==
  <<"Internal Error: Could not find item code for ">> \o name \o <<".">>

(***************************************************************************)
(* State                                                                   *)
(***************************************************************************)
VARIABLES
  images,        \* App.tsx:10 useState<ProcessedImage[]>: sequence of items
  itemCodes,     \* App.tsx:11 useState(''): text of the textarea
  error,         \* App.tsx:12 useState<string | null>
  isProcessing,  \* App.tsx:13 useState(false)
  nextId,        \* App.tsx:18-20 source of fresh ids and object URLs
  liveUrls,      \* App.tsx:20,123 object URLs created and not yet revoked
  calls,         \* App.tsx:98 renameImage promises not yet settled: image, itemCode
  runs,          \* App.tsx:83,117 invocations suspended at await Promise.all:
                 \* the ids of pendingImages and of the unsettled promises
  renameLog      \* App.tsx:98 the ids of the images renameImage was invoked
                 \* for, in the order of the invocations

vars ==
  <<images, itemCodes, error, isProcessing, nextId, liveUrls, calls, runs, renameLog>>

\* errorMessage?: string is <<>> when absent and <<m>> when set to m.
NoErrorMessage == <<>>

\* error: string | null
NoError == [kind |-> "null"]
NoCodesProvided == [kind |-> "NoCodesProvided"]
UnmatchedItems(names, extra) ==
  [kind |-> "UnmatchedItems", names |-> names, extra |-> extra]

Ids(imgs) == { imgs[i].id : i \in DOMAIN imgs }

ImageOf(imgs, id) == imgs[CHOOSE i \in DOMAIN imgs : imgs[i].id = id]

pendingImagesCount == Cardinality({ i \in DOMAIN images : images[i].status = "pending" })

Init ==
  /\ images = <<>>
  /\ itemCodes = <<>>
  /\ error = NoError
  /\ isProcessing = FALSE
  /\ nextId = 1
  /\ liveUrls = {}
  /\ calls = {}
  /\ runs = {}
  /\ renameLog = <<>>

(***************************************************************************)
(* handleFilesSelected                                                     *)
(***************************************************************************)
NewImage(name, n) ==
  [ id |-> n, previewUrl |-> n, originalName |-> name,
    newName |-> <<>>, status |-> "pending", errorMessage |-> NoErrorMessage ]

NewImages(files, first) == [ i \in DOMAIN files |-> NewImage(files[i], first + i - 1) ]

\* <ImageUploader disabled={isProcessing}>
UploaderEnabled == ~isProcessing

\* Mutant: the new items replace the collection.
AppendImages_Replace(prevImages, newImages) == newImages

\* prevImages => [...prevImages, ...newImages]
AppendImages(prevImages, newImages) == prevImages \o newImages

handleFilesSelected(files) ==
  /\ UploaderEnabled
  /\ error' = NoError
  /\ images' = AppendImages(images, NewImages(files, nextId))
  /\ liveUrls' = liveUrls \cup { nextId + i - 1 : i \in DOMAIN files }
  /\ nextId' = nextId + Len(files)
  /\ UNCHANGED <<itemCodes, isProcessing, calls, runs, renameLog>>

(***************************************************************************)
(* textarea onChange                                                       *)
(***************************************************************************)
TextareaEnabled == ~isProcessing

setItemCodes(text) ==
  /\ TextareaEnabled
  /\ itemCodes' = text
  /\ UNCHANGED <<images, error, isProcessing, nextId, liveUrls, calls, runs, renameLog>>

(***************************************************************************)
(* handleClear                                                             *)
(***************************************************************************)
ClearButtonEnabled == Len(images) > 0 /\ ~isProcessing

\* Mutant: no object URL is revoked.
RevokedUrls_None(imgs) == {}

\* images.forEach(image => URL.revokeObjectURL(image.previewUrl))
RevokedUrls(imgs) == { imgs[i].previewUrl : i \in DOMAIN imgs }

\* Mutant: the code text is kept.
handleClear_KeepsCodes ==
  /\ ClearButtonEnabled
  /\ liveUrls' = liveUrls \ RevokedUrls(images)
  /\ images' = <<>>
  /\ error' = NoError
  /\ UNCHANGED <<itemCodes, isProcessing, nextId, calls, runs, renameLog>>

handleClear ==
  /\ ClearButtonEnabled
  /\ liveUrls' = liveUrls \ RevokedUrls(images)
  /\ images' = <<>>
  /\ itemCodes' = <<>>
  /\ error' = NoError
  /\ UNCHANGED <<isProcessing, nextId, calls, runs, renameLog>>

(***************************************************************************)
(* handleProcessImages: the gate                                           *)
(***************************************************************************)
\* Mutant: the filter forgets to trim.
NonBlank_NoTrim(c) == c # <<>>

\* c => c.trim() !== ''
NonBlank(c) == Trim(c) # <<>>

\* itemCodes.split('\n').filter(c => c.trim() !== '')
codes(text) == SelectSeq(Split(text, NL), NonBlank)

\* Mutant: a failed item is taken up again.
IsPending_OrError(img) == img.status \in {"pending", "error"}

\* img.status === 'pending'
IsPending(img) == img.status = "pending"

\* images.filter(img => img.status === 'pending')
pendingImages(imgs) == SelectSeq(imgs, IsPending)

\* Mutant: the last matching code instead of the first.
matchingCode_Last(cs, name) ==
  LET hits == { i \in DOMAIN cs : StartsWith(name, Trim(cs[i])) }
  IN IF hits = {} THEN <<>>
     ELSE cs[CHOOSE i \in hits : \A j \in hits : i >= j]

\* codes.find(code => image.originalName.startsWith(code.trim()));
\* undefined is <<>>, which is as falsy as the empty string.
matchingCode(cs, name) ==
  LET hits == { i \in DOMAIN cs : StartsWith(name, Trim(cs[i])) }
  IN IF hits = {} THEN <<>>
     ELSE cs[CHOOSE i \in hits : \A j \in hits : i <= j]

\* First pass: the pending images no code is a prefix of.
firstPassUnmatched(pend, cs) ==
  LET NoMatch(img) == matchingCode(cs, img.originalName) = <<>>
  IN SelectSeq(pend, NoMatch)

\* Mutant: the single code is used as typed.
singleCode_NoTrim(cs) == cs[1]

\* codes[0].trim()
singleCode(cs) == Trim(cs[1])

\* Mutant: the second pass runs whatever the number of codes.
secondPassApplies_AnyCount(unmatched, cs) == Len(unmatched) > 0

\* unmatchedImages.length > 0 && codes.length === 1
secondPassApplies(unmatched, cs) == Len(unmatched) > 0 /\ Len(cs) = 1

\* unmatchedImages after both passes
unmatchedImages(pend, cs) ==
  LET unmatched == firstPassUnmatched(pend, cs)
  IN IF secondPassApplies(unmatched, cs) THEN <<>> ELSE unmatched

\* Mutant: the second pass empties unmatchedImages without assigning the code.
imageToCodeMap_FirstPassOnly(pend, cs) ==
  LET unmatched == firstPassUnmatched(pend, cs)
      matched == Ids(pend) \ Ids(unmatched)
  IN [ id \in matched |->
         Trim(matchingCode(cs, ImageOf(pend, id).originalName)) ]

\* imageToCodeMap after both passes: a function from ids to trimmed codes
imageToCodeMap(pend, cs) ==
  LET unmatched == firstPassUnmatched(pend, cs)
      matched == Ids(pend) \ Ids(unmatched)
      first == [ id \in matched |->
                   Trim(matchingCode(cs, ImageOf(pend, id).originalName)) ]
  IN IF secondPassApplies(unmatched, cs)
     THEN [ id \in Ids(pend) |-> IF id \in matched THEN first[id] ELSE singleCode(cs) ]
     ELSE first

UnmatchedSampleSize == 3

\* unmatchedImages.map(img => img.originalName).slice(0, 3)
unmatchedNames(unmatched) ==
  Slice([ i \in DOMAIN unmatched |-> unmatched[i].originalName ], UnmatchedSampleSize)

\* Mutant: the remainder counts every unmatched image.
extraMessage_Total(unmatched) ==
  IF Len(unmatched) > UnmatchedSampleSize THEN << Len(unmatched) >> ELSE <<>>

\* ` and ${unmatchedImages.length - 3} more`, or '' (here <<>>)
extraMessage(unmatched) ==
  IF Len(unmatched) > UnmatchedSampleSize
  THEN << Len(unmatched) - UnmatchedSampleSize >>
  ELSE <<>>

(***************************************************************************)
(* handleProcessImages: the run                                            *)
(***************************************************************************)
\* Mutant: the pending items are not marked.
MarkProcessing_Skipped(imgs) == imgs

\* img.status === 'pending' ? { ...img, status: 'processing' } : img
MarkProcessing(imgs) ==
  [ i \in DOMAIN imgs |->
      IF imgs[i].status = "pending" THEN [imgs[i] EXCEPT !.status = "processing"]
      ELSE imgs[i] ]

\* Mutant: the item is looked up by file name.
IsTarget_ByName(img, image) == img.originalName = image.originalName

\* img.id === image.id
IsTarget(img, image) == img.id = image.id

\* img.id === image.id ? { ...img, status: 'completed', newName } : img
SetCompleted(imgs, image, newName) ==
  [ i \in DOMAIN imgs |->
      IF IsTarget(imgs[i], image)
      THEN [imgs[i] EXCEPT !.status = "completed", !.newName = newName]
      ELSE imgs[i] ]

\* img.id === image.id ? { ...img, status: 'error', errorMessage } : img
SetError(imgs, image, errorMessage) ==
  [ i \in DOMAIN imgs |->
      IF IsTarget(imgs[i], image)
      THEN [imgs[i] EXCEPT !.status = "error", !.errorMessage = <<errorMessage>>]
      ELSE imgs[i] ]

\* !itemCode, for itemCode = imageToCodeMap.get(image.id)
NoItemCode(map, id) == id \notin DOMAIN map \/ map[id] = <<>>

\* The safeguard of the promise loop, applied to each image without a code.
RECURSIVE MarkInternalErrors(_, _, _)
MarkInternalErrors(imgs, pend, map) ==
  IF pend = <<>> THEN imgs
  ELSE LET image == Head(pend)
           rest == MarkInternalErrors(imgs, Tail(pend), map)
       IN IF NoItemCode(map, image.id)
          THEN SetError(rest, image, InternalErrorMessage(image.originalName))
          ELSE rest

\* Mutant: the invocation waits for the first promise only.
NewRun_FirstOnly(pend, map) ==
  [ items |-> [ i \in DOMAIN pend |-> pend[i].id ],
    unsettled |-> { id \in {pend[1].id} : ~NoItemCode(map, id) } ]

\* The snapshot of an invocation: the ids of pendingImages, in order, and the
\* ids of the processingPromises that have not settled.
NewRun(pend, map) ==
  [ items |-> [ i \in DOMAIN pend |-> pend[i].id ],
    unsettled |-> { id \in Ids(pend) : ~NoItemCode(map, id) } ]

\* Mutant: the loop stops before the last pending image.
NewCalls_SkipLast(pend, map) ==
  { [id |-> id, originalName |-> ImageOf(pend, id).originalName, itemCode |-> map[id]] :
      id \in { x \in Ids(pend) \ {pend[Len(pend)].id} : ~NoItemCode(map, x) } }

\* renameImage(image.file, itemCode) for each image with a code
NewCalls(pend, map) ==
  { [id |-> id, originalName |-> ImageOf(pend, id).originalName, itemCode |-> map[id]] :
      id \in { x \in Ids(pend) : ~NoItemCode(map, x) } }

\* The images renameImage is invoked for, in the order of pendingImages.map.
Invocations(pend, map) ==
  LET HasCall(img) == \E c \in NewCalls(pend, map) : c.id = img.id
      called == SelectSeq(pend, HasCall)
  IN [ i \in DOMAIN called |-> called[i].id ]

\* <button onClick={handleProcessImages} disabled={isProcessing}>, rendered
\* when pendingImagesCount > 0
ProcessButtonEnabled == pendingImagesCount > 0 /\ ~isProcessing

handleProcessImages ==
  /\ ProcessButtonEnabled
  /\ LET cs == codes(itemCodes)
         pend == pendingImages(images)
     IN IF Len(pend) = 0
        THEN UNCHANGED vars
        ELSE IF Len(cs) = 0
        THEN /\ error' = NoCodesProvided
             /\ UNCHANGED <<images, itemCodes, isProcessing, nextId, liveUrls, calls,
                            runs, renameLog>>
        ELSE LET map == imageToCodeMap(pend, cs)
                 unmatched == unmatchedImages(pend, cs)
             IN IF Len(unmatched) > 0
                THEN /\ error' = UnmatchedItems(unmatchedNames(unmatched),
                                                extraMessage(unmatched))
                     /\ UNCHANGED <<images, itemCodes, isProcessing, nextId,
                                    liveUrls, calls, runs, renameLog>>
                ELSE /\ error' = NoError
                     /\ isProcessing' = TRUE
                     /\ images' = MarkInternalErrors(MarkProcessing(images), pend, map)
                     /\ calls' = calls \cup NewCalls(pend, map)
                     /\ runs' = runs \cup {NewRun(pend, map)}
                     /\ renameLog' = renameLog \o Invocations(pend, map)
                     /\ UNCHANGED <<itemCodes, nextId, liveUrls>>

\* Mutant: a settled promise is not reported to the invocation waiting on it.
Settle_Forgets(rs, id) == rs

\* Mutant: the first promise to settle settles the whole wait.
Settle_All(rs, id) ==
  { [r EXCEPT !.unsettled = IF id \in @ THEN {} ELSE @] : r \in rs }

\* One settled promise fewer for the invocation waiting on it.
Settle(rs, id) == { [r EXCEPT !.unsettled = @ \ {id}] : r \in rs }

\* .then(newName => ...): renameImage resolved with newName
renameResolved(c, newName) ==
  /\ c \in calls
  /\ images' = SetCompleted(images, c, Trim(newName))
  /\ calls' = calls \ {c}
  /\ runs' = Settle(runs, c.id)
  /\ UNCHANGED <<itemCodes, error, isProcessing, nextId, liveUrls, renameLog>>

\* error instanceof Error ? error.message : "An unknown error occurred ..."
errorMessageOf(failure) ==
  IF failure.isError THEN failure.message ELSE UnknownErrorMessage

\* .catch(error => ...): renameImage rejected with failure
renameRejected(c, failure) ==
  /\ c \in calls
  /\ images' = SetError(images, c, errorMessageOf(failure))
  /\ calls' = calls \ {c}
  /\ runs' = Settle(runs, c.id)
  /\ UNCHANGED <<itemCodes, error, isProcessing, nextId, liveUrls, renameLog>>

\* Mutant: the await is missing.
AllSettled_NoAwait(r) == TRUE

\* await Promise.all(processingPromises) lets the invocation go on
AllSettled(r) == r.unsettled = {}

\* setIsProcessing(false), after the await
processingDone(r) ==
  /\ r \in runs
  /\ AllSettled(r)
  /\ isProcessing' = FALSE
  /\ runs' = runs \ {r}
  /\ UNCHANGED <<images, itemCodes, error, nextId, liveUrls, calls, renameLog>>

(***************************************************************************)
(* Specifications                                                          *)
(***************************************************************************)
\* The file lists of one selection event that keep ids within 1..MaxFiles.
FileLists ==
  UNION { [1..n -> FileNames] : n \in 1..(MaxFiles + 1 - nextId) }

\* An item as it is after a run that completed it.
CompletedImage(name, n) ==
  [NewImage(name, n) EXCEPT !.status = "completed", !.newName = <<"N">>]

\* The collections of an idle application with items waiting to be processed:
\* items completed by an earlier run, then the files selected since.
GateCollections ==
  UNION { { [ i \in 1..n |-> IF i <= done THEN CompletedImage(names[i], i)
                                           ELSE NewImage(names[i], i) ] :
              names \in [1..n -> FileNames] } :
          n \in 1..MaxGateImages, done \in 0..1 }

Next ==
  \/ \E files \in FileLists : handleFilesSelected(files)
  \/ \E text \in CodeTexts : setItemCodes(text)
  \/ handleClear
  \/ handleProcessImages
  \/ \E c \in calls, newName \in RenameResults : renameResolved(c, newName)
  \/ \E c \in calls, failure \in Failures : renameRejected(c, failure)
  \/ \E r \in runs : processingDone(r)

Spec == Init /\ [][Next]_vars

\* Every launched renameImage call settles, and an invocation whose promises
\* have all settled goes on after its await.
Fairness ==
  /\ WF_vars(\E c \in calls, newName \in RenameResults : renameResolved(c, newName))
  /\ WF_vars(\E c \in calls, failure \in Failures : renameRejected(c, failure))
  /\ WF_vars(\E r \in runs : processingDone(r))

SpecFair == Spec /\ Fairness

\* The gate of handleProcessImages on larger collections: the user has selected
\* files and typed codes, and presses the Process button.
InitGate ==
  /\ images \in { imgs \in GateCollections : pendingImages(imgs) # <<>> }
  /\ itemCodes \in CodeTexts
  /\ error = NoError
  /\ isProcessing = FALSE
  /\ nextId = Len(images) + 1
  /\ liveUrls = { images[i].previewUrl : i \in DOMAIN images }
  /\ calls = {}
  /\ runs = {}
  /\ renameLog = [ i \in 1..Cardinality({ k \in DOMAIN images :
                                           images[k].status = "completed" }) |-> i ]

NextGate ==
  \/ \E text \in CodeTexts : setItemCodes(text)
  \/ handleProcessImages

SpecGate == InitGate /\ [][NextGate]_vars

(***************************************************************************)
(* Properties                                                              *)
(***************************************************************************)
Terminal == {"completed", "error"}

\* The item of a collection with a given id, when there is one.
HasId(imgs, id) == \E i \in DOMAIN imgs : imgs[i].id = id

\* The ids of the items of a run, as a set.
ItemsOf(r) == { r.items[i] : i \in DOMAIN r.items }

\* The text of an item's errorMessage is set and not empty.
HasErrorMessage(img) == img.errorMessage # <<>> /\ img.errorMessage[1] # <<>>

\* C1: a run sets isProcessing back to false only after every rename call it
\* launched has settled, and at that moment every item of its pending snapshot
\* is completed or error.
C1_DoneAfterAllSettled ==
  [][ \A r \in runs :
        (r \notin runs' /\ isProcessing /\ ~isProcessing') =>
           /\ \A c \in calls' : c.id \notin ItemsOf(r)
           /\ \A id \in ItemsOf(r) :
                /\ HasId(images', id)
                /\ ImageOf(images', id).status \in Terminal ]_vars

\* A run has reported itself done after one call resolved and another rejected.
C1_Witness ==
  /\ ~isProcessing
  /\ runs = {}
  /\ calls = {}
  /\ \E i, j \in DOMAIN images :
       images[i].status = "completed" /\ images[j].status = "error"

\* C2: a completed or error item has exactly one of a non-empty newName and a
\* non-empty errorMessage; a pending or processing item has neither.
C2_ExactlyOneOfNameAndMessage ==
  \A i \in DOMAIN images :
    LET img == images[i]
    IN /\ img.status \in Terminal =>
            ((img.newName # <<>>) # HasErrorMessage(img))
       /\ img.status \notin Terminal =>
            (img.newName = <<>> /\ img.errorMessage = NoErrorMessage)

\* C3: the only status changes of an item are pending -> processing,
\* processing -> completed and processing -> error.
C3_StatusTransitions ==
  [][ \A i \in DOMAIN images : \A j \in DOMAIN images' :
        images[i].id = images'[j].id =>
          \/ images'[j].status = images[i].status
          \/ <<images[i].status, images'[j].status>> \in
               { <<"pending", "processing">>,
                 <<"processing", "completed">>,
                 <<"processing", "error">> } ]_vars

\* One item has gone pending -> processing -> error while another of the same
\* run is still processing.
C3_Witness ==
  \E i, j \in DOMAIN images :
    /\ images[i].status = "error"
    /\ images[j].status = "processing"

\* The pending items of the collection, and those no trimmed code is a prefix of.
PendingIndexes == { i \in DOMAIN images : images[i].status = "pending" }

SomeCodeIsPrefix(cs, name) == \E k \in DOMAIN cs : StartsWith(name, Trim(cs[k]))

UnmatchedIndexes ==
  { i \in PendingIndexes : ~SomeCodeIsPrefix(codes(itemCodes), images[i].originalName) }

\* The names of a sample, as a set.
NamesIn(sample) == { sample[k] : k \in DOMAIN sample }

\* The gate failed: nothing but the error message changed.
GateFailed ==
  /\ images' = images
  /\ isProcessing' = FALSE
  /\ calls' = calls
  /\ runs' = runs

\* C4 as stated: with more than one code and a pending item that starts with
\* none of them, the action fails as a whole and the error names every such item.
C4_Original ==
  [][ (handleProcessImages /\ Len(codes(itemCodes)) > 1 /\ UnmatchedIndexes # {}) =>
        /\ error'.kind = "UnmatchedItems"
        /\ \A i \in UnmatchedIndexes : images[i].originalName \in NamesIn(error'.names)
        /\ GateFailed ]_vars

\* The position of a pending unmatched item among the pending unmatched items.
UnmatchedRank(i) == Cardinality({ j \in UnmatchedIndexes : j <= i })

\* C4, amended: with more than one code and a pending item that starts with
\* none of them, the action fails as a whole; the error names that item when
\* it is one of the first three unmatched items in collection order and counts
\* it in the remainder otherwise.
C4_UnmatchedFailsWhole ==
  [][ (handleProcessImages /\ Len(codes(itemCodes)) > 1 /\ UnmatchedIndexes # {}) =>
        /\ error'.kind = "UnmatchedItems"
        /\ \A i \in UnmatchedIndexes :
             IF UnmatchedRank(i) <= 3
             THEN /\ UnmatchedRank(i) \in DOMAIN error'.names
                  /\ error'.names[UnmatchedRank(i)] = images[i].originalName
             ELSE error'.extra = << Cardinality(UnmatchedIndexes) - 3 >>
        /\ GateFailed ]_vars

\* The gate has failed over more than three unmatched items, one of them not
\* named by the sample, while an item that matches a code stays pending.
C4_Witness ==
  /\ error.kind = "UnmatchedItems"
  /\ error.extra # <<>>
  /\ ~isProcessing
  /\ Len(codes(itemCodes)) > 1
  /\ \E i \in UnmatchedIndexes : images[i].originalName \notin NamesIn(error.names)
  /\ \E i \in PendingIndexes : i \notin UnmatchedIndexes

\* The code text has no non-blank line.
BlankText(text) == \A k \in DOMAIN text : IsWhiteSpace(text[k])

\* C5: invoked while the code text has no non-blank line, the action reports
\* NoCodesProvided, starts no rename call and leaves every item unchanged.
C5_NoCodesProvided ==
  [][ (handleProcessImages /\ BlankText(itemCodes)) =>
        /\ error' = NoCodesProvided
        /\ GateFailed ]_vars

\* NoCodesProvided was reported over blank lines, with an item of an earlier
\* run in the collection next to the pending one.
C5_Witness ==
  /\ error = NoCodesProvided
  /\ itemCodes # <<>>
  /\ BlankText(itemCodes)
  /\ PendingIndexes # {}
  /\ \E i \in DOMAIN images : images[i].status \in Terminal

\* C6: with exactly one code the action never fails with UnmatchedItems: the
\* run starts and the call of every pending item gets the trimmed code as hint.
C6_SingleCodeMatchesAll ==
  [][ (handleProcessImages /\ Len(codes(itemCodes)) = 1) =>
        /\ error' = NoError
        /\ isProcessing'
        /\ \A i \in PendingIndexes :
             \E c \in calls' \ calls :
               /\ c.id = images[i].id
               /\ c.itemCode = Trim(codes(itemCodes)[1])
               /\ c.itemCode # <<>>
               /\ ~IsWhiteSpace(Head(c.itemCode))
               /\ ~IsWhiteSpace(c.itemCode[Len(c.itemCode)]) ]_vars

\* A call is out whose hint, the single padded code, is no prefix of its file.
C6_Witness ==
  /\ Len(codes(itemCodes)) = 1
  /\ codes(itemCodes)[1] # Trim(codes(itemCodes)[1])
  /\ \E c \in calls : ~StartsWith(c.originalName, c.itemCode)

\* C7: the code passed to the call of a pending item that starts with some
\* code is the first code, in list order, whose trimmed text is a prefix of the
\* file name.
C7_FirstMatchWins ==
  [][ (handleProcessImages /\ isProcessing') =>
        \A i \in PendingIndexes :
          LET cs == codes(itemCodes)
              name == images[i].originalName
          IN SomeCodeIsPrefix(cs, name) =>
               \E c \in calls' \ calls : \E k \in DOMAIN cs :
                 /\ c.id = images[i].id
                 /\ c.itemCode = Trim(cs[k])
                 /\ StartsWith(name, Trim(cs[k]))
                 /\ \A j \in 1..(k - 1) : ~StartsWith(name, Trim(cs[j])) ]_vars

\* A file that starts with two codes got the first of them, the shorter one.
C7_Witness ==
  \E c \in calls : \E k \in DOMAIN codes(itemCodes) :
    /\ StartsWith(c.originalName, Trim(codes(itemCodes)[k]))
    /\ Len(Trim(codes(itemCodes)[k])) > Len(c.itemCode)
    /\ c.itemCode # Trim(codes(itemCodes)[k])

\* C8: at most one run is in progress; while a rename call is outstanding no
\* invocation launches calls or moves a pending item, and isProcessing is not
\* set to false.
C8_OneRunAtATime ==
  [][ /\ Cardinality(runs') <= 1
      /\ calls' # {} => isProcessing'
      /\ calls # {} =>
           /\ calls' \subseteq calls
           /\ \A i \in PendingIndexes :
                HasId(images', images[i].id) =>
                  ImageOf(images', images[i].id).status = "pending" ]_vars

\* A run is in progress: one of its calls has settled, another is outstanding.
C8_Witness ==
  /\ isProcessing
  /\ \E r \in runs :
       /\ r.unsettled # {}
       /\ Cardinality(r.unsettled) < Len(r.items)
       /\ \A id \in r.unsettled : \E c \in calls : c.id = id

\* The pending items whose status is not pending after the step.
MovedIndexes ==
  { i \in PendingIndexes :
      HasId(images', images[i].id) /\ ImageOf(images', images[i].id).status # "pending" }

\* C9: a starting run moves exactly the pending items to processing, all in
\* one step, each with a rename call (or the internal-error marking) issued
\* for it; no item of a run is completed or error while another is pending.
C9_AllProcessingAtOnce ==
  [][ /\ MovedIndexes # {} =>
           /\ MovedIndexes = PendingIndexes
           /\ DOMAIN images' = DOMAIN images
           /\ \A i \in DOMAIN images \ PendingIndexes : images'[i] = images[i]
           /\ \A i \in PendingIndexes :
                \/ /\ images'[i] = [images[i] EXCEPT !.status = "processing"]
                   /\ \E c \in calls' \ calls : c.id = images[i].id
                \/ images'[i] =
                     [images[i] EXCEPT
                        !.status = "error",
                        !.errorMessage = <<InternalErrorMessage(images[i].originalName)>>]
      /\ \A r \in runs' : \A a, b \in ItemsOf(r) :
           (HasId(images', a) /\ HasId(images', b)) =>
              ~ /\ ImageOf(images', a).status \in Terminal
                /\ ImageOf(images', b).status = "pending" ]_vars

\* A run has just started over two pending items: both are processing and
\* both calls are outstanding.
C9_Witness ==
  /\ Cardinality(calls) >= 2
  /\ \A i \in DOMAIN images : images[i].status = "processing"
  /\ \E r \in runs : r.unsettled = Ids(images)

\* C10: applying the outcome of one item's call changes the status, newName
\* and errorMessage of that item only, and an item that has its outcome keeps
\* it whatever happens to its siblings.
C10_OutcomeIsLocal ==
  [][ /\ \A c \in calls \ calls' :
           /\ DOMAIN images' = DOMAIN images
           /\ \A i \in DOMAIN images :
                IF images[i].id = c.id
                THEN /\ images'[i].status \in Terminal
                     /\ images'[i].id = images[i].id
                     /\ images'[i].originalName = images[i].originalName
                     /\ images'[i].previewUrl = images[i].previewUrl
                ELSE images'[i] = images[i]
      /\ \A i \in DOMAIN images :
           (images[i].status \in Terminal /\ HasId(images', images[i].id)) =>
              ImageOf(images', images[i].id) = images[i] ]_vars

\* Two files of the same name: the call of the first rejected, the call of the
\* second resolved afterwards or before, and each keeps its own outcome.
C10_Witness ==
  \E i, j \in DOMAIN images :
    /\ i < j
    /\ images[i].originalName = images[j].originalName
    /\ images[i].status = "error"
    /\ images[i].newName = <<>>
    /\ images[j].status = "completed"
    /\ images[j].errorMessage = NoErrorMessage

\* C11: clear-all leaves the collection and the code text empty and the error
\* cleared; no other action removes an item, and applying a rename outcome
\* adds no item.
C11_ClearResets ==
  [][ /\ handleClear =>
           (images' = <<>> /\ itemCodes' = <<>> /\ error' = NoError)
      /\ Ids(images) \ Ids(images') # {} =>
           (images' = <<>> /\ itemCodes' = <<>> /\ error' = NoError)
      /\ calls' # calls /\ calls' \subseteq calls => Ids(images') = Ids(images) ]_vars

\* Everything selected so far was cleared, items with an outcome included.
C11_Witness ==
  /\ images = <<>>
  /\ itemCodes = <<>>
  /\ error = NoError
  /\ renameLog # <<>>
  /\ nextId > 1

\* The number of invocations of renameImage for an image.
InvocationsFor(id) == Cardinality({ k \in DOMAIN renameLog : renameLog[k] = id })

\* C12: renameImage is invoked at most once for an item over its lifetime:
\* once for each item a run has taken up, never for a pending one, and never
\* again for an item that ended completed or error.
C12_AtMostOneInvocation ==
  /\ \A id \in 1..(nextId - 1) : InvocationsFor(id) <= 1
  /\ \A i \in DOMAIN images :
       InvocationsFor(images[i].id) = IF images[i].status = "pending" THEN 0 ELSE 1

\* A later run has started next to an item that an earlier run left in error.
C12_Witness ==
  /\ Len(renameLog) >= 2
  /\ \E i, j \in DOMAIN images :
       /\ images[i].status = "error"
       /\ images[j].status = "processing"
       /\ \A r \in runs : images[i].id \notin ItemsOf(r)

\* C13: whenever the gates of handleProcessImages pass, every image of the
\* pending snapshot has a non-empty code in imageToCodeMap, and no item is ever
\* marked with the internal-error message.
C13_SafeguardUnreachable ==
  /\ LET cs == codes(itemCodes)
         pend == pendingImages(images)
     IN (Len(pend) > 0 /\ Len(cs) > 0 /\ Len(unmatchedImages(pend, cs)) = 0) =>
          \A k \in DOMAIN pend :
            /\ pend[k].id \in DOMAIN imageToCodeMap(pend, cs)
            /\ imageToCodeMap(pend, cs)[pend[k].id] # <<>>
  /\ \A i \in DOMAIN images :
       images[i].errorMessage # <<InternalErrorMessage(images[i].originalName)>>
  /\ \A i \in DOMAIN images :
       images[i].status = "processing" => \E c \in calls : c.id = images[i].id

\* Both gates passed over two pending images, one matched by prefix and one by
\* the single-code pass, and both calls are out.
C13_Witness ==
  /\ isProcessing
  /\ \E c, d \in calls :
       /\ StartsWith(c.originalName, c.itemCode)
       /\ ~StartsWith(d.originalName, d.itemCode)
       /\ ImageOf(images, c.id).status = "processing"
       /\ ImageOf(images, d.id).status = "processing"

\* C14: when an item's rename call rejects, the item becomes error with the
\* failure's own message whenever the failure carries one, and with the generic
\* message only when it carries none.
C14_FailureMessage ==
  [][ \A c \in calls, failure \in Failures :
        renameRejected(c, failure) =>
          /\ ImageOf(images', c.id).status = "error"
          /\ ImageOf(images', c.id).errorMessage =
               << IF failure.message # <<>> THEN failure.message
                  ELSE UnknownErrorMessage >> ]_vars

\* An item is processing.
SomeProcessing == \E i \in DOMAIN images : images[i].status = "processing"

\* C15: when every launched call settles, a started run finishes: isProcessing
\* becomes false again and every item has left processing.
\* Meanwhile no step removes an item or drops a call without its outcome.
C15_RunFinishes ==
  /\ (isProcessing \/ SomeProcessing) ~>
       (~isProcessing /\ ~SomeProcessing /\ calls = {})
  /\ [][ isProcessing =>
           /\ Ids(images) \subseteq Ids(images')
           /\ \A c \in calls \ calls' : ImageOf(images', c.id).status \in Terminal
           /\ \A r \in runs \ runs' :
                \/ \E q \in runs' : q.items = r.items /\ q.unsettled \subseteq r.unsettled
                \/ r.unsettled = {} /\ ~isProcessing' ]_vars

\* A run over two items has finished and both have left processing.
C15_Witness ==
  /\ ~isProcessing
  /\ runs = {}
  /\ Len(images) >= 2
  /\ \A i \in DOMAIN images : images[i].status \in Terminal
  /\ Len(renameLog) = Len(images)

\* C16: the live preview handles are the handles of the items in the
\* collection: none is released while its item is there, and none is left
\* after a clear.
C16_PreviewHandles ==
  /\ liveUrls = { images[i].previewUrl : i \in DOMAIN images }
  /\ \A i, j \in DOMAIN images : images[i].previewUrl = images[j].previewUrl => i = j
  /\ images = <<>> => liveUrls = {}

\* A file was selected and cleared, and another selected since: only the
\* handle of the second is live.
C16_Witness ==
  /\ Len(images) = 1
  /\ images[1].previewUrl > 1
  /\ liveUrls = {images[1].previewUrl}

\* C17: a file selection appends one pending item per file, with empty newName
\* and no errorMessage, after the existing items and leaves those unchanged; the
\* originalName of an item never changes.
C17_SelectionAppends ==
  [][ /\ \A files \in FileLists :
           handleFilesSelected(files) =>
             /\ Len(images') = Len(images) + Len(files)
             /\ SubSeq(images', 1, Len(images)) = images
             /\ \A k \in DOMAIN files :
                  LET img == images'[Len(images) + k]
                  IN /\ img.originalName = files[k]
                     /\ img.status = "pending"
                     /\ img.newName = <<>>
                     /\ img.errorMessage = NoErrorMessage
                     /\ img.id \notin Ids(images)
      /\ \A i \in DOMAIN images : \A j \in DOMAIN images' :
           images[i].id = images'[j].id =>
             images'[j].originalName = images[i].originalName ]_vars

\* A file was selected after a run: the completed item is followed by a
\* pending one.
C17_Witness ==
  /\ Len(images) = 2
  /\ images[1].status = "completed"
  /\ images[1].newName # <<>>
  /\ images[2].status = "pending"

\* The original names of the pending unmatched items, in collection order.
RECURSIVE UnmatchedNamesFrom(_)
UnmatchedNamesFrom(i) ==
  IF i > Len(images) THEN <<>>
  ELSE IF i \in UnmatchedIndexes
       THEN <<images[i].originalName>> \o UnmatchedNamesFrom(i + 1)
       ELSE UnmatchedNamesFrom(i + 1)

\* C18: a failure with UnmatchedItems over n unmatched pending items lists the
\* names of the first min(3, n) of them in collection order, and a remainder
\* of n - 3 exactly when n > 3.
C18_UnmatchedSample ==
  [][ (handleProcessImages /\ error'.kind = "UnmatchedItems") =>
        LET n == Cardinality(UnmatchedIndexes)
            all == UnmatchedNamesFrom(1)
        IN /\ n > 0
           /\ Len(all) = n
           /\ Len(error'.names) = IF n < 3 THEN n ELSE 3
           /\ \A k \in DOMAIN error'.names : error'.names[k] = all[k]
           /\ error'.extra = IF n > 3 THEN << n - 3 >> ELSE <<>> ]_vars

\* Four unmatched items: three are listed and one more is counted.
C18_Witness ==
  /\ error.kind = "UnmatchedItems"
  /\ Len(error.names) = 3
  /\ error.extra = <<1>>
  /\ Cardinality(UnmatchedIndexes) = 4

\* C19: whenever isProcessing is false, no item has status processing.
C19_NoneProcessingWhenIdle ==
  ~isProcessing => \A i \in DOMAIN images : images[i].status # "processing"

\* A run has finished and files were selected since: nothing is processing.
C19_Witness ==
  /\ ~isProcessing
  /\ renameLog # <<>>
  /\ \E i, j \in DOMAIN images :
       images[i].status \in Terminal /\ images[j].status = "pending"

====
